---- MODULE Spec2Model ----
(***************************************************************************)
(* WebbOS disk-image tools: the three image builders                       *)
(* (tools/create-fat32-image.py, tools/create-gpt-image.py,                *)
(* tools/create-simple-esp.py), the copy tool (tools/copy-to-image.py) and *)
(* the update tool (update-image.py).                                      *)
(*                                                                         *)
(* Representation.  TLC integers are 32-bit signed, so                     *)
(*   - a 32-bit word is a pair <<hi16, lo16>> of its 16-bit halves;        *)
(*   - a byte string is a sequence of byte values 0..255, a character is   *)
(*     its ASCII code;                                                     *)
(*   - a 32-byte directory record is a record of the fields at the byte    *)
(*     offsets the tools read and write (name@0..10, attr@11, ... );       *)
(*   - a long byte region is a sequence of runs <<value, length>>;         *)
(*   - a FAT and a directory cluster are stored without their trailing     *)
(*     all-zero entries (FatAt / SlotAt give the zero entry there).        *)
(***************************************************************************)
EXTENDS Integers, Sequences, FiniteSets, TLC

VARIABLES
    kind,      \* which image the file holds: "none" "mbr" "gpt" "simple" "raw" "codec"
    sector0,   \* the fields of the first 512 bytes of the image that the tools read
    gpt,       \* GPT header (92 bytes) and partition entry 0 (128 bytes), or <<>>
    boot,      \* the FAT32 boot sector at the volume start, same fields as sector0
    fat1,      \* first FAT copy: sequence of 32-bit words, entry i at index i+1
    fat2,      \* second FAT copy
    dirs,      \* directory clusters: cluster number -> sequence of directory records
    area,      \* the image bytes from area.base to the end of the file, as runs
    nops,      \* number of copy/update runs made on the image
    last       \* what the last run did and returned (observation of the run)

vars == <<kind, sector0, gpt, boot, fat1, fat2, dirs, area, nops, last>>

-----------------------------------------------------------------------------
(* Bounds of the model *)

\* image size of create-fat32-image.py, in sectors (the source builds 131072)
MbrTotalSectors == 2148
\* image size of create-gpt-image.py, in sectors (the source builds 131072)
GptTotalSectors == 2182
\* image size of create-simple-esp.py, in sectors (the source builds 131072)
SimpleTotalSectors == 101
\* number of copy/update runs on one image
MaxOps == 2

-----------------------------------------------------------------------------
(* Program constants *)

SectorSize == 512
DirEntrySize == 32
FatEntrySize == 4
ClusterSectors == 8
ReservedSectors == 32
NumFats == 2
PartitionStart == 2048
GptDefaultStart == 2048
GptEntryCount == 128
GptEntrySize == 128
GptHeaderSize == 92

-----------------------------------------------------------------------------
(* Bytes and words *)

Min(a, b) == IF a < b THEN a ELSE b
Max(a, b) == IF a > b THEN a ELSE b

\* ceil(a / b) as the tools compute it: (a + b - 1) // b
CeilDiv(a, b) == (a + b - 1) \div b

Zeros(n) == [i \in 1..n |-> 0]

\* struct.pack('<H', v): two bytes, low byte first
PackH(v) == <<v % 256, (v \div 256) % 256>>
\* struct.unpack('<H', b)[0]
UnpackH(b) == b[1] + 256 * b[2]
\* struct.pack('<I', v) of a number below 2^31
PackI(v) == <<v % 256, (v \div 256) % 256, (v \div 65536) % 256, (v \div 16777216) % 256>>
\* struct.unpack('<I', b)[0] of bytes whose value is below 2^31
UnpackI(b) == b[1] + 256 * b[2] + 65536 * b[3] + 16777216 * b[4]
\* struct.pack('<I', w) of a 32-bit word <<hi16, lo16>>
PackW(w) == PackH(w[2]) \o PackH(w[1])
\* struct.pack('<Q', v) of a number below 2^31
PackQ(v) == PackI(v) \o <<0, 0, 0, 0>>

\* the word of a number below 2^31
Word(n) == <<n \div 65536, n % 65536>>
\* the number of a word below 2^31
WordNum(w) == w[1] * 65536 + w[2]
\* w & 0x0FFFFFFF
Mask28(w) == <<w[1] % 4096, w[2]>>
\* w >= 0x0FFFFFF8, for a word already masked
IsEOC(w) == w[1] = 4095 /\ w[2] >= 65528
WZero == <<0, 0>>
\* 0x0FFFFFFF
EOC == <<4095, 65535>>
\* 0x0FFFFFF8
MediaMarker == <<4095, 65528>>
\* 0xFFFFFFFF
AllOnes == <<65535, 65535>>

RECURSIVE Xor(_, _)
Xor(a, b) == IF a = 0 THEN b ELSE IF b = 0 THEN a
             ELSE ((a + b) % 2) + 2 * Xor(a \div 2, b \div 2)
XorW(a, b) == <<Xor(a[1], b[1]), Xor(a[2], b[2])>>
Shr1(r) == <<r[1] \div 2, (r[2] \div 2) + (r[1] % 2) * 32768>>
Shr8(r) == <<r[1] \div 256, (r[2] \div 256) + (r[1] % 256) * 256>>

-----------------------------------------------------------------------------
(* CRC-32 (binascii.crc32): reflected polynomial 0xEDB88320, initial value *)
(* and final xor 0xFFFFFFFF.  The register is a word.                      *)

CrcPoly == <<60856, 33568>>

RECURSIVE CrcBits(_, _)
CrcBits(reg, n) ==
    IF n = 0 THEN reg
    ELSE CrcBits(IF reg[2] % 2 = 1 THEN XorW(Shr1(reg), CrcPoly) ELSE Shr1(reg), n - 1)

CrcTable == [i \in 0..255 |-> CrcBits(<<0, i>>, 8)]

CrcStep(reg, b) == XorW(CrcTable[Xor(reg[2] % 256, b)], Shr8(reg))

\* the register after the bytes s[lo..hi]
RECURSIVE CrcFeed(_, _, _, _)
CrcFeed(reg, s, lo, hi) ==
    IF lo > hi THEN reg
    ELSE IF lo = hi THEN CrcStep(reg, s[lo])
    ELSE LET mid == (lo + hi) \div 2
             r == CrcFeed(reg, s, lo, mid)
         IN IF r[1] >= 0 THEN CrcFeed(r, s, mid + 1, hi) ELSE r

\* the register after n bytes of value 0
RECURSIVE CrcFeedZeros(_, _)
CrcFeedZeros(reg, n) ==
    IF n = 0 THEN reg
    ELSE IF n = 1 THEN CrcStep(reg, 0)
    ELSE LET h == n \div 2
             r == CrcFeedZeros(reg, h)
         IN IF r[1] >= 0 THEN CrcFeedZeros(r, n - h) ELSE r

\* crc32(data) of the bytes s followed by nzero zero bytes
crc32z(s, nzero) == XorW(CrcFeedZeros(CrcFeed(AllOnes, s, 1, Len(s)), nzero), AllOnes)
crc32(s) == crc32z(s, 0)

-----------------------------------------------------------------------------
(* Runs: a byte region as a sequence of <<value, length>>, lengths > 0,    *)
(* adjacent runs of different value.                                       *)

RECURSIVE RunsLen(_)
RunsLen(r) == IF r = <<>> THEN 0 ELSE r[1][2] + RunsLen(Tail(r))

\* r1 followed by r2, merged where they meet
RunsCat(r1, r2) ==
    IF r1 = <<>> THEN r2
    ELSE IF r2 = <<>> THEN r1
    ELSE IF r1[Len(r1)][1] = r2[1][1]
         THEN SubSeq(r1, 1, Len(r1) - 1)
              \o <<(<<r2[1][1], r1[Len(r1)][2] + r2[1][2]>>)>>
              \o Tail(r2)
         ELSE r1 \o r2

Run(v, n) == IF n <= 0 THEN <<>> ELSE <<(<<v, n>>)>>

\* the first n bytes of r (all of r when it is shorter)
RECURSIVE RunsTake(_, _)
RunsTake(r, n) ==
    IF n <= 0 \/ r = <<>> THEN <<>>
    ELSE IF r[1][2] >= n THEN <<(<<r[1][1], n>>)>>
    ELSE <<r[1]>> \o RunsTake(Tail(r), n - r[1][2])

\* r without its first n bytes
RECURSIVE RunsDrop(_, _)
RunsDrop(r, n) ==
    IF r = <<>> THEN <<>>
    ELSE IF n <= 0 THEN r
    ELSE IF r[1][2] > n THEN <<(<<r[1][1], r[1][2] - n>>)>> \o Tail(r)
    ELSE RunsDrop(Tail(r), n - r[1][2])

\* Python r[a:b]
RunsSlice(r, a, b) == RunsTake(RunsDrop(r, a), b - a)

\* Python bytearray slice assignment r[a:a+n] = d, for any a >= 0 and n >= 0:
\* the slice bounds are clamped to len(r), so a write past the end appends
RunsAssign(r, a, n, d) ==
    LET L == RunsLen(r)
        start == Min(a, L)
        stop == Max(start, Min(a + n, L))
    IN RunsCat(RunsCat(RunsTake(r, start), d), RunsDrop(r, stop))

\* file write: f.seek(a); f.write(d) -- a gap past the end is zero-filled
RunsWriteAt(r, a, d) ==
    LET L == RunsLen(r)
        padded == IF a > L THEN RunsCat(r, Run(0, a - L)) ELSE r
    IN RunsCat(RunsCat(RunsTake(padded, a), d), RunsDrop(padded, a + RunsLen(d)))

\* the runs of r followed by zeros up to length n (r when it is longer)
RunsPad(r, n) == RunsCat(r, Run(0, n - RunsLen(r)))

-----------------------------------------------------------------------------
(* Names: sequences of ASCII codes *)

Space == 32

\* str.upper() of one ASCII character
UpperChar(c) == IF c >= 97 /\ c <= 122 THEN c - 32 ELSE c
Upper(s) == [i \in 1..Len(s) |-> UpperChar(s[i])]

\* s[:n].ljust(n, ' ')
Ljust(s, n) == [i \in 1..n |-> IF i <= Len(s) THEN s[i] ELSE Space]

\* the characters str.strip() removes
Whitespace == {9, 10, 11, 12, 13, 28, 29, 30, 31, 32, 133, 160}

\* str.strip()
Strip(s) ==
    LET keep == {i \in 1..Len(s) : s[i] \notin Whitespace}
    IN IF keep = {} THEN <<>>
       ELSE LET a == CHOOSE i \in keep : \A j \in keep : i <= j
                b == CHOOSE i \in keep : \A j \in keep : i >= j
            IN SubSeq(s, a, b)

\* bytes.decode('ascii', errors='ignore'): bytes above 127 are dropped
RECURSIVE DecodeAsciiIgnore(_)
DecodeAsciiIgnore(s) ==
    IF s = <<>> THEN <<>>
    ELSE IF s[1] > 127 THEN DecodeAsciiIgnore(Tail(s))
    ELSE <<s[1]>> \o DecodeAsciiIgnore(Tail(s))

\* the index of the last '.' of s, 0 when there is none ('.' in s, s.rsplit('.', 1))
LastDot(s) ==
    LET dots == {i \in 1..Len(s) : s[i] = 46}
    IN IF dots = {} THEN 0 ELSE CHOOSE i \in dots : \A j \in dots : i >= j

\* attr & bit, for a power of two bit
HasBit(attr, bit) == (attr \div bit) % 2 = 1

-----------------------------------------------------------------------------
(* Directory records (32 bytes) *)

\* bytearray(32)
ZeroSlot ==
    [name |-> Zeros(11), attr |-> 0, ctime |-> <<0, 0>>, cdate |-> <<0, 0>>,
     adate |-> <<0, 0>>, clhi |-> <<0, 0>>, mtime |-> <<0, 0>>, mdate |-> <<0, 0>>,
     cllo |-> <<0, 0>>, size |-> <<0, 0, 0, 0>>]

\* create_directory_entry(name, ext, attr, cluster, size); cluster is a word
\* a FAT16-style encoder: the high half of the cluster number is not stored
create_directory_entry_low16(name, ext, attr, cluster, size) ==
    [ZeroSlot EXCEPT
        !.name = Ljust(SubSeq(Upper(name), 1, Min(8, Len(name))), 8)
                 \o Ljust(SubSeq(Upper(ext), 1, Min(3, Len(ext))), 3),
        !.attr = attr,
        !.cllo = PackH(cluster[2]),
        !.size = PackI(size)]

create_directory_entry(name, ext, attr, cluster, size) ==
    [ZeroSlot EXCEPT
        !.name = Ljust(SubSeq(Upper(name), 1, Min(8, Len(name))), 8)
                 \o Ljust(SubSeq(Upper(ext), 1, Min(3, Len(ext))), 3),
        !.attr = attr,
        !.clhi = PackH(cluster[1]),      \* entry[20:22] = pack('<H', cluster >> 16)
        !.cllo = PackH(cluster[2]),      \* entry[26:28] = pack('<H', cluster & 0xFFFF)
        !.size = PackI(size)]

\* parse_directory_entry(data, offset) on the record at that offset:
\* (entry, entry_type)
parse_directory_entry(e) ==
    IF e.name[1] = 0 THEN [type |-> "end"]
    ELSE IF e.name[1] = 229 THEN [type |-> "deleted"]
    ELSE IF e.attr = 15 THEN [type |-> "lfn"]
    ELSE IF HasBit(e.attr, 8) THEN [type |-> "label"]
    ELSE [type |-> "file",
          name |-> Strip(e.name),
          attr |-> e.attr,
          start_cluster |-> <<UnpackH(e.clhi), UnpackH(e.cllo)>>,
          size |-> UnpackI(e.size)]

-----------------------------------------------------------------------------
(* Sequences stored without trailing zero entries *)

RECURSIVE Trim(_, _)
Trim(s, zero) ==
    IF s = <<>> THEN s
    ELSE IF s[Len(s)] = zero THEN Trim(SubSeq(s, 1, Len(s) - 1), zero)
    ELSE s

\* entry i (from 0) of a sequence stored trimmed
At(s, i, zero) == IF i + 1 <= Len(s) THEN s[i + 1] ELSE zero

\* the sequence with entry i (from 0) set to v
SetAt(s, i, v, zero) ==
    Trim([j \in 1..Max(Len(s), i + 1) |->
             IF j = i + 1 THEN v ELSE IF j <= Len(s) THEN s[j] ELSE zero], zero)

FatAt(fat, i) == At(fat, i, WZero)
FatSet(fat, i, w) == SetAt(fat, i, w, WZero)
SlotAt(slots, i) == At(slots, i, ZeroSlot)
SlotSet(slots, i, e) == SetAt(slots, i, e, ZeroSlot)

\* a store that leaves out the last of the n entries
FatStorePrefixShort(old, fat, n) ==
    Trim([j \in 1..Max(Len(old), Min(n - 1, Len(fat))) |->
             IF j <= n - 1 THEN At(fat, j - 1, WZero) ELSE old[j]], WZero)

\* image[off:off + 4*n] = fat[:4*n]: the first n entries of a FAT copy replaced
FatStorePrefix(old, fat, n) ==
    Trim([j \in 1..Max(Len(old), Min(n, Len(fat))) |->
             IF j <= n THEN At(fat, j - 1, WZero) ELSE old[j]], WZero)

-----------------------------------------------------------------------------
(* Sectors: the fields at the offsets the tools read.  An MBR and a FAT32   *)
(* boot sector are both 512-byte sectors, read at different offsets.       *)

\* bytearray(512)
ZeroSector ==
    [bps11 |-> 0, spc13 |-> 0, rsv14 |-> 0, nf16 |-> 0, hid28 |-> 0, tot32 |-> 0,
     spf36 |-> 0, root44 |-> 0, flag446 |-> 0, type450 |-> 0, lba454 |-> 0,
     cnt458 |-> 0, sig510 |-> <<0, 0>>]

BootSignature == <<85, 170>>

\* create_fat32_boot_sector(...) and the inline boot sectors of the GPT and
\* simple builders, which set the same fields
create_fat32_boot_sector(sectors_per_cluster, reserved_sectors, num_fats, sectors_per_fat, total_sectors, root_cluster, volume_start_sector) ==
    [ZeroSector EXCEPT
        !.bps11 = SectorSize,
        !.spc13 = sectors_per_cluster,
        !.rsv14 = reserved_sectors,
        !.nf16 = num_fats,
        !.hid28 = volume_start_sector,
        !.tot32 = total_sectors,
        !.spf36 = sectors_per_fat,
        !.root44 = root_cluster,
        !.sig510 = BootSignature]

\* a layout that keeps the first cluster count, computed before the FAT
\* sectors were taken off the data area
FatLayoutFirstEstimate(partition_sectors) ==
    LET data_sectors0 == partition_sectors - ReservedSectors
        num_clusters0 == data_sectors0 \div ClusterSectors
    IN [sectors_per_fat |->
            (num_clusters0 * FatEntrySize + SectorSize - 1) \div SectorSize + 1,
        num_clusters |-> num_clusters0]

\* "Calculate FAT size" of the three builders: sectors_per_fat and the
\* recomputed num_clusters of a partition of partition_sectors sectors
FatLayout(partition_sectors) ==
    LET data_sectors0 == partition_sectors - ReservedSectors
        num_clusters0 == data_sectors0 \div ClusterSectors
        sectors_per_fat ==
            (num_clusters0 * FatEntrySize + SectorSize - 1) \div SectorSize + 1
        data_sectors == partition_sectors - ReservedSectors - NumFats * sectors_per_fat
    IN [sectors_per_fat |-> sectors_per_fat,
        num_clusters |-> data_sectors \div ClusterSectors]

ClusterBytes == ClusterSectors * SectorSize

NameEFI == <<69, 70, 73>>
NameBOOT == <<66, 79, 79, 84>>
NameDot == <<46>>
NameDotDot == <<46, 46>>
AttrDirectory == 16
AttrArchive == 32

\* The FAT32 volume the builders write at sector esp_start: the FAT copies,
\* the root, EFI and BOOT directories.  efi_dot and efi_dotdot are the
\* clusters the builder gives the '.' and '..' records of EFI.
BuildVolume(esp_start, esp_sectors, image_size, efi_dot, efi_dotdot) ==
    LET lay == FatLayout(esp_sectors)
        boot_offset == esp_start * SectorSize
        fat_size == lay.sectors_per_fat * SectorSize
        fat1_offset == boot_offset + ReservedSectors * SectorSize
        fat2_offset == fat1_offset + fat_size
        data_offset == fat2_offset + fat_size
        \* fat[0:4], fat[4:8], fat[8:12]; both copies written whole
        fatA == <<MediaMarker, AllOnes, EOC>>
        f1A == fatA
        f2A == fatA
        \* fat[12:16]; image[fat1_offset:+16] = fat[:16], likewise the second copy
        fatB == FatSet(fatA, 3, EOC)
        f1B == FatStorePrefix(f1A, fatB, 4)
        f2B == FatStorePrefix(f2A, fatB, 4)
        \* fat[16:20]; image[fat1_offset:+20] = fat[:20], likewise the second copy
        fatC == FatSet(fatB, 4, EOC)
        f1C == FatStorePrefix(f1B, fatC, 5)
        f2C == FatStorePrefix(f2B, fatC, 5)
        root == <<create_directory_entry(NameEFI, <<>>, AttrDirectory, Word(3), 0)>>
        efi == <<create_directory_entry(NameDot, <<>>, AttrDirectory, Word(efi_dot), 0),
                 create_directory_entry(NameDotDot, <<>>, AttrDirectory, Word(efi_dotdot), 0),
                 create_directory_entry(NameBOOT, <<>>, AttrDirectory, Word(4), 0)>>
        bootdir == <<create_directory_entry(NameDot, <<>>, AttrDirectory, Word(4), 0),
                     create_directory_entry(NameDotDot, <<>>, AttrDirectory, Word(3), 0)>>
        base == data_offset + 3 * ClusterBytes
    IN [boot |-> [lba |-> esp_start,
                  sec |-> create_fat32_boot_sector(ClusterSectors, ReservedSectors,
                              NumFats, lay.sectors_per_fat, esp_sectors, 2, esp_start)],
        fat1 |-> f1C,
        fat2 |-> f2C,
        dirs |-> (2 :> root) @@ (3 :> efi) @@ (4 :> bootdir),
        area |-> [base |-> base, runs |-> Run(0, image_size - base)]]

\* create_mbr_partition_table() with the size set by the caller
\* a partition table that marks the partition as plain FAT32 LBA (0x0C)
create_mbr_partition_table_fat32(partition_sectors) ==
    [ZeroSector EXCEPT
        !.flag446 = 128,
        !.type450 = 12,
        !.lba454 = PartitionStart,
        !.cnt458 = partition_sectors,
        !.sig510 = BootSignature]

create_mbr_partition_table(partition_sectors) ==
    [ZeroSector EXCEPT
        !.flag446 = 128,
        !.type450 = 239,
        !.lba454 = PartitionStart,
        !.cnt458 = partition_sectors,
        !.sig510 = BootSignature]

\* tools/create-fat32-image.py
create_efi_bootable_image ==
    LET total_sectors == MbrTotalSectors
        partition_sectors == total_sectors - PartitionStart
        vol == BuildVolume(PartitionStart, partition_sectors,
                           total_sectors * SectorSize, 2, 0)
    IN [kind |-> "mbr",
        sector0 |-> create_mbr_partition_table(partition_sectors),
        gpt |-> <<>>,
        boot |-> vol.boot, fat1 |-> vol.fat1, fat2 |-> vol.fat2,
        dirs |-> vol.dirs, area |-> vol.area]

\* tools/create-simple-esp.py
create_simple_esp_image ==
    LET total_sectors == SimpleTotalSectors
        esp_start == 1
        esp_sectors == total_sectors - 1
        vol == BuildVolume(esp_start, esp_sectors, total_sectors * SectorSize, 3, 2)
    IN [kind |-> "simple",
        sector0 |-> [ZeroSector EXCEPT
                        !.flag446 = 128,
                        !.type450 = 239,
                        !.lba454 = esp_start,
                        !.cnt458 = esp_sectors,
                        !.sig510 = BootSignature],
        gpt |-> <<>>,
        boot |-> vol.boot, fat1 |-> vol.fat1, fat2 |-> vol.fat2,
        dirs |-> vol.dirs, area |-> vol.area]

-----------------------------------------------------------------------------
(* tools/create-gpt-image.py *)

\* b'EFI PART'
GptSignature == <<69, 70, 73, 32, 80, 65, 82, 84>>
\* bytes.fromhex('28732AC11FF8D211BA4B00A0C93EC93B')
EspTypeGuid == <<40, 115, 42, 193, 31, 248, 210, 17, 186, 75, 0, 160, 201, 62, 201, 59>>
\* "EFI System Partition".encode('utf-16-le')
EspNameUtf16 ==
    <<69, 0, 70, 0, 73, 0, 32, 0, 83, 0, 121, 0, 115, 0, 116, 0, 101, 0, 109, 0,
      32, 0, 80, 0, 97, 0, 114, 0, 116, 0, 105, 0, 116, 0, 105, 0, 111, 0, 110, 0>>

\* b[a:a+len(d)] = d on a byte sequence (a from 0)
BytesPut(b, a, d) ==
    [i \in 1..Len(b) |-> IF i > a /\ i <= a + Len(d) THEN d[i - a] ELSE b[i]]

GptArrayBytes == GptEntryCount * GptEntrySize

\* the GPT header fields of lines 89-103, CRC fields zero
GptHeaderFields(total_sectors, first_usable_lba, last_usable_lba, disk_guid) ==
    GptSignature
    \o <<0, 0, 1, 0>>                       \* revision 0x00010000
    \o PackI(GptHeaderSize)
    \o PackI(0)                             \* CRC32 (will calculate)
    \o PackI(0)                             \* reserved
    \o PackQ(1)                             \* current LBA
    \o PackQ(total_sectors - 1)             \* backup LBA
    \o PackQ(first_usable_lba)
    \o PackQ(last_usable_lba)
    \o disk_guid
    \o PackQ(2)                             \* partition entry array start LBA
    \o PackI(GptEntryCount)
    \o PackI(GptEntrySize)
    \o PackI(0)                             \* CRC32 of partition entry array

\* the ESP partition entry, without its trailing zero bytes
GptEspEntry(part_guid, esp_start, esp_end) ==
    EspTypeGuid \o part_guid \o PackQ(esp_start) \o PackQ(esp_end) \o PackQ(0)
    \o EspNameUtf16

\* lines 88-139: header, first header CRC, partition entry, entry-array CRC,
\* header CRC again.  hdr is image[512:604], ent is image[1024:1024+len]
\* (the rest of the array is zero); crc_input is gpt_header[0:92] as it is
\* when the last header CRC is taken.
\* a builder that stops at line 135: the header CRC in the image is the one
\* taken at line 106, before the entry-array CRC is embedded
GptTablesSingleCrc(total_sectors, first_usable_lba, last_usable_lba, esp_start, esp_end, disk_guid, part_guid) ==
    LET h0 == GptHeaderFields(total_sectors, first_usable_lba, last_usable_lba, disk_guid)
        h1 == BytesPut(h0, 16, PackW(crc32(h0)))
        ent == GptEspEntry(part_guid, esp_start, esp_end)
        partition_crc == crc32z(ent, GptArrayBytes - Len(ent))
        h2 == BytesPut(h1, 88, PackW(partition_crc))
    IN [hdr |-> h2, ent |-> ent, crc_input |-> h0]

GptTables(total_sectors, first_usable_lba, last_usable_lba, esp_start, esp_end, disk_guid, part_guid) ==
    LET h0 == GptHeaderFields(total_sectors, first_usable_lba, last_usable_lba, disk_guid)
        \* header_crc = crc32(gpt_header[0:92]); gpt_header[16:20] = ...
        h1 == BytesPut(h0, 16, PackW(crc32(h0)))
        \* image[1024:1152] = esp_entry
        ent == GptEspEntry(part_guid, esp_start, esp_end)
        \* partition_crc = crc32(image[1024:1024+entry_array_size])
        partition_crc == crc32z(ent, GptArrayBytes - Len(ent))
        h2 == BytesPut(h1, 88, PackW(partition_crc))
        \* header_crc = crc32(gpt_header[0:92]); gpt_header[16:20] = ...
        h3 == BytesPut(h2, 16, PackW(crc32(h2)))
    IN [hdr |-> h3, ent |-> ent, crc_input |-> h2]

create_gpt_efi_image(disk_guid, part_guid) ==
    LET total_sectors == GptTotalSectors
        first_usable_lba == 34
        last_usable_lba == total_sectors - 34
        esp_start == GptDefaultStart
        esp_end == last_usable_lba - 1
        esp_sectors == esp_end - esp_start + 1
        tables == GptTables(total_sectors, first_usable_lba, last_usable_lba,
                            esp_start, esp_end, disk_guid, part_guid)
        vol == BuildVolume(esp_start, esp_sectors, total_sectors * SectorSize, 3, 2)
    IN [kind |-> "gpt",
        sector0 |-> [ZeroSector EXCEPT
                        !.type450 = 238,
                        !.lba454 = 1,
                        !.cnt458 = total_sectors - 1,
                        !.sig510 = BootSignature],
        gpt |-> tables,
        boot |-> vol.boot, fat1 |-> vol.fat1, fat2 |-> vol.fat2,
        dirs |-> vol.dirs, area |-> vol.area]

\* uuid.uuid4().bytes_le, twice: the (disk GUID, partition GUID) pairs drawn
GuidA == <<17, 34, 51, 68, 85, 102, 119, 72, 136, 153, 170, 187, 204, 221, 238, 255>>
GuidB == <<1, 2, 3, 4, 5, 6, 7, 64, 128, 9, 10, 11, 12, 13, 14, 15>>
GuidPairs == {<<GuidA, GuidB>>, <<GuidB, GuidA>>}

-----------------------------------------------------------------------------
(* The image file *)

Img ==
    [kind |-> kind, sector0 |-> sector0, gpt |-> gpt, boot |-> boot,
     fat1 |-> fat1, fat2 |-> fat2, dirs |-> dirs, area |-> area]

SetImg(i) ==
    /\ kind' = i.kind
    /\ sector0' = i.sector0
    /\ gpt' = i.gpt
    /\ boot' = i.boot
    /\ fat1' = i.fat1
    /\ fat2' = i.fat2
    /\ dirs' = i.dirs
    /\ area' = i.area

\* the image file and the observation after a run that returned r
AfterRun(r) ==
    /\ SetImg(r.img)
    /\ last' = r.res

NoImage ==
    [kind |-> "none", sector0 |-> ZeroSector, gpt |-> <<>>,
     boot |-> [lba |-> 0, sec |-> ZeroSector], fat1 |-> <<>>, fat2 |-> <<>>,
     dirs |-> <<>>, area |-> [base |-> 0, runs |-> <<>>]]

Init ==
    /\ kind = "none"
    /\ sector0 = ZeroSector
    /\ gpt = <<>>
    /\ boot = [lba |-> 0, sec |-> ZeroSector]
    /\ fat1 = <<>>
    /\ fat2 = <<>>
    /\ dirs = <<>>
    /\ area = [base |-> 0, runs |-> <<>>]
    /\ nops = 0
    /\ last = [op |-> "none"]

BuildMbr ==
    /\ kind = "none"
    /\ SetImg(create_efi_bootable_image)
    /\ nops' = 0
    /\ last' = [op |-> "build"]

BuildGpt ==
    /\ kind = "none"
    /\ \E g \in GuidPairs : SetImg(create_gpt_efi_image(g[1], g[2]))
    /\ nops' = 0
    /\ last' = [op |-> "build"]

BuildSimple ==
    /\ kind = "none"
    /\ SetImg(create_simple_esp_image)
    /\ nops' = 0
    /\ last' = [op |-> "build"]

-----------------------------------------------------------------------------
(* tools/copy-to-image.py *)

\* get_fat_time() at the moment now = [year, month, day, hour, minute, second]
get_fat_time(now) ==
    [time_val |-> now.hour * 2048 + now.minute * 32 + now.second \div 2,
     date_val |-> (now.year - 1980) * 512 + now.month * 32 + now.day]

\* image[lba*512 : lba*512 + 512] of an image: the MBR, the boot sector the
\* builder wrote, or a sector no builder writes these fields of
ReadSector(img, lba) ==
    IF lba = 0 THEN img.sector0
    ELSE IF lba = img.boot.lba THEN img.boot.sec
    ELSE ZeroSector

\* the record i (from 0) of the directory cluster
DirSlot(img, cluster, i) ==
    IF cluster \in DOMAIN img.dirs THEN SlotAt(img.dirs[cluster], i) ELSE ZeroSlot

\* least element of a non-empty set of numbers
Least(S) == CHOOSE x \in S : \A y \in S : x <= y

\* lines 53-77, one path component: the cluster of the directory named part
\* in the directory cluster current_cluster, or "none"
CopyFindDir(img, current_cluster, nslots, part) ==
    LET ends == {i \in 0..(nslots - 1) : DirSlot(img, current_cluster, i).name[1] = 0}
        stop == IF ends = {} THEN nslots ELSE Least(ends)
        hits == {i \in 0..(stop - 1) :
                    LET entry == DirSlot(img, current_cluster, i)
                    IN /\ entry.name[1] # 229
                       /\ entry.attr # 15
                       /\ Strip(DecodeAsciiIgnore(SubSeq(entry.name, 1, 8))) = Upper(part)
                       /\ HasBit(entry.attr, AttrDirectory)}
    IN IF hits = {} THEN [found |-> FALSE, stop |-> stop]
       ELSE LET entry == DirSlot(img, current_cluster, Least(hits))
            IN [found |-> TRUE, stop |-> Least(hits),
                cluster |-> UnpackH(entry.cllo) + 65536 * UnpackH(entry.clhi)]

\* lines 50-77: walk path_parts[:-1] from root_cluster
RECURSIVE CopyNavigate(_, _, _, _, _)
CopyNavigate(img, current_cluster, nslots, parts, k) ==
    IF k > Len(parts) - 1 THEN [found |-> TRUE, cluster |-> current_cluster]
    ELSE LET r == CopyFindDir(img, current_cluster, nslots, parts[k])
         IN IF r.found THEN CopyNavigate(img, r.cluster, nslots, parts, k + 1)
            ELSE [found |-> FALSE, part |-> parts[k]]

\* lines 84-93: the 11 name bytes of the new record
CopyFatName(last_part) ==
    LET file_name == Upper(last_part)
        dot == LastDot(file_name)
        name == IF dot > 0 THEN SubSeq(file_name, 1, dot - 1) ELSE file_name
        ext == IF dot > 0 THEN SubSeq(file_name, dot + 1, Len(file_name)) ELSE <<>>
    IN Ljust(SubSeq(name, 1, Min(8, Len(name))), 8)
       \o Ljust(SubSeq(ext, 1, Min(3, Len(ext))), 3)

\* lines 95-105: the first record whose first byte is 0x00 or 0xE5, or -1
CopyFreeSlot(img, cluster, nslots) ==
    LET free == {i \in 0..(nslots - 1) :
                    DirSlot(img, cluster, i).name[1] \in {0, 229}}
    IN IF free = {} THEN -1 ELSE Least(free)

\* a cluster count that rounds down
ClustersNeededFloor(file_size, cluster_bytes) ==
    LET clusters_needed == file_size \div cluster_bytes
    IN IF clusters_needed = 0 THEN 1 ELSE clusters_needed

\* lines 112-114
ClustersNeeded(file_size, cluster_bytes) ==
    LET clusters_needed == (file_size + cluster_bytes - 1) \div cluster_bytes
    IN IF clusters_needed = 0 THEN 1 ELSE clusters_needed

\* an allocator that hands out the clusters from 5 on without reading the FAT
FindFreeClustersFromFive(fat, nentries, clusters_needed) ==
    [k \in 1..Min(clusters_needed, Max(nentries - 5, 0)) |-> k + 4]

\* an allocator that passes over the first free cluster
FindFreeClustersNextFit(fat, nentries, clusters_needed) ==
    LET candidates == [k \in 1..Max(nentries - 2, 0) |-> k + 1]
        free == SelectSeq(candidates, LAMBDA i : Mask28(FatAt(fat, i)) = WZero)
    IN SubSeq(free, 2, Min(clusters_needed + 1, Len(free)))

\* lines 116-124: the FAT entries 2 .. nentries-1 whose masked value is 0,
\* in ascending order, up to clusters_needed of them
FindFreeClusters(fat, nentries, clusters_needed) ==
    LET candidates == [k \in 1..Max(nentries - 2, 0) |-> k + 1]
        free == SelectSeq(candidates, LAMBDA i : Mask28(FatAt(fat, i)) = WZero)
    IN SubSeq(free, 1, Min(clusters_needed, Len(free)))

\* lines 143-149: the FAT with the chain linked
LinkChain(fat, free_clusters) ==
    LET n == Len(free_clusters)
        top == IF n = 0 THEN 0 ELSE free_clusters[n] + 1
    IN Trim([j \in 1..Max(Len(fat), top) |->
                IF \E k \in 1..n : free_clusters[k] = j - 1
                THEN LET k == CHOOSE k \in 1..n : free_clusters[k] = j - 1
                     IN IF k < n THEN Mask28(Word(free_clusters[k + 1])) ELSE EOC
                ELSE FatAt(fat, j - 1)], WZero)

\* lines 131-141: image[cluster_offset : cluster_offset + to_write] = src_data[...]
\* for the clusters free_clusters[lo..hi]; runs are the image bytes from base on
RECURSIVE WriteFileData(_, _, _, _, _, _, _, _)
WriteFileData(runs, base, data_offset, cluster_bytes, free_clusters, src, lo, hi) ==
    IF lo > hi THEN runs
    ELSE IF lo = hi
    THEN LET cluster_offset == data_offset + (free_clusters[lo] - 2) * cluster_bytes
             data_ptr == Min((lo - 1) * cluster_bytes, src.len)
             to_write == Min(src.len - data_ptr, cluster_bytes)
         IN RunsAssign(runs, cluster_offset - base, to_write, Run(src.val, to_write))
    ELSE LET mid == (lo + hi) \div 2
             r == WriteFileData(runs, base, data_offset, cluster_bytes,
                                free_clusters, src, lo, mid)
         IN IF Len(r) >= 0
            THEN WriteFileData(r, base, data_offset, cluster_bytes,
                               free_clusters, src, mid + 1, hi)
            ELSE r

\* lines 156-173: the new directory record
CopyDirEntry(fat_name, first_cluster, file_size, now) ==
    LET t == get_fat_time(now)
    IN [name |-> fat_name,
        attr |-> AttrArchive,
        ctime |-> PackH(t.time_val),
        cdate |-> PackH(t.date_val),
        adate |-> PackH(t.date_val),
        clhi |-> PackH(first_cluster \div 65536),
        mtime |-> PackH(t.time_val),
        mdate |-> PackH(t.date_val),
        cllo |-> PackH(first_cluster % 65536),
        size |-> PackI(file_size)]

\* a write-back that stores the FAT in the first copy only
CopyWriteFirstFat(img, fat) == [img EXCEPT !.fat1 = fat]

\* lines 151-154: the FAT written back, to both copies
CopyWriteFats(img, fat) == [img EXCEPT !.fat1 = fat, !.fat2 = fat]

\* a failure that first writes the clusters it did find into both FAT copies
CopyInsufficientSpaceLinked(img, base, clusters_needed, free_clusters) ==
    [img |-> CopyWriteFats(img, LinkChain(img.fat1, free_clusters)),
     res |-> base @@ [ok |-> FALSE, err |-> "InsufficientSpace",
                      needed |-> clusters_needed, found |-> Len(free_clusters)]]

\* lines 126-128: "Not enough free clusters (need .., found ..)", return False
\* before the image is written back
CopyInsufficientSpace(img, base, clusters_needed, free_clusters) ==
    [img |-> img,
     res |-> base @@ [ok |-> FALSE, err |-> "InsufficientSpace",
                      needed |-> clusters_needed, found |-> Len(free_clusters)]]

\* fat32_copy_file(image_path, src_file, dest_path): path_parts is dest_path
\* split at '/', src the source file (src.len bytes of value src.val).
\* Returns the image written back and what was returned and printed.
fat32_copy_file(img, src, path_parts, now) ==
    LET mbr == ReadSector(img, 0)
        part_type == mbr.type450
        esp_start == IF part_type = 239 THEN mbr.lba454 ELSE GptDefaultStart
        boot_offset == esp_start * SectorSize
        boot_sector == ReadSector(img, esp_start)
        bytes_per_sector == boot_sector.bps11
        sectors_per_cluster == boot_sector.spc13
        reserved_sectors == boot_sector.rsv14
        num_fats == boot_sector.nf16
        sectors_per_fat == boot_sector.spf36
        root_cluster == boot_sector.root44
        fat1_offset == boot_offset + reserved_sectors * bytes_per_sector
        data_offset == fat1_offset + num_fats * sectors_per_fat * bytes_per_sector
        cluster_bytes == sectors_per_cluster * bytes_per_sector
        nslots == cluster_bytes \div DirEntrySize
        nav == CopyNavigate(img, root_cluster, nslots, path_parts, 1)
        file_size == src.len
        fat_name == CopyFatName(path_parts[Len(path_parts)])
        entry_idx == CopyFreeSlot(img, nav.cluster, nslots)
        clusters_needed == ClustersNeeded(file_size, cluster_bytes)
        fat == img.fat1
        nentries == (sectors_per_fat * bytes_per_sector) \div FatEntrySize
        free_clusters == FindFreeClusters(fat, nentries, clusters_needed)
        runs == WriteFileData(img.area.runs, img.area.base, data_offset, cluster_bytes,
                              free_clusters, src, 1, Len(free_clusters))
        newfat == LinkChain(fat, free_clusters)
        entry == CopyDirEntry(fat_name, free_clusters[1], file_size, now)
        written ==
            [CopyWriteFats(img, newfat) EXCEPT
                !.area.runs = runs,
                !.dirs[nav.cluster] = SlotSet(img.dirs[nav.cluster], entry_idx, entry)]
        base == [op |-> "copy", path |-> path_parts, src |-> src, pre |-> img,
                 cluster_bytes |-> cluster_bytes, data_offset |-> data_offset]
    IN IF ~nav.found
       THEN [img |-> img,
             res |-> base @@ [ok |-> FALSE, err |-> "DirectoryNotFound",
                              part |-> nav.part]]
       ELSE IF entry_idx = -1
       THEN [img |-> img,
             res |-> base @@ [ok |-> FALSE, err |-> "DirectoryFull",
                              dir_cluster |-> nav.cluster]]
       ELSE IF Len(free_clusters) < clusters_needed
       THEN CopyInsufficientSpace(img, base, clusters_needed, free_clusters)
       ELSE [img |-> written,
             res |-> base @@ [ok |-> TRUE, err |-> "", dir_cluster |-> nav.cluster,
                              entry_idx |-> entry_idx, chain |-> free_clusters,
                              clusters_needed |-> clusters_needed]]

\* the destination paths, source files and clock values drawn in the model
PathBootx64 == <<NameEFI, NameBOOT, <<66, 79, 79, 84, 88, 54, 52, 46, 69, 70, 73>>>>
PathKernel == <<(<<107, 101, 114, 110, 101, 108>>)>>
PathMissingDir == <<(<<66, 73, 78>>), (<<65, 46, 88>>)>>
PathThroughFile == <<(<<75, 69, 82, 78, 69, 76>>), (<<65, 46, 88>>)>>
CopyPaths == {PathBootx64, PathKernel, PathMissingDir, PathThroughFile}
\* the last file needs more clusters than a FAT of the model's images has entries
SrcFiles == {[val |-> 65, len |-> 0], [val |-> 65, len |-> 5000],
             [val |-> 66, len |-> 8192], [val |-> 67, len |-> 260 * 4096]}
Clock == {[year |-> 2024, month |-> 3, day |-> 9, hour |-> 13, minute |-> 37, second |-> 58]}

Copy ==
    /\ kind \in {"mbr", "gpt", "simple"}
    /\ nops < MaxOps
    /\ \E path \in CopyPaths, src \in SrcFiles, now \in Clock :
          AfterRun(fat32_copy_file(Img, src, path, now))
    /\ nops' = nops + 1

-----------------------------------------------------------------------------
(* update-image.py.  The tool reads the image file f by offset; the file   *)
(* is the image record img.                                                *)

\* parse_fat32_bpb(f): the sector at offset 0; "error" when the signature
\* check raises ValueError
parse_fat32_bpb(img) ==
    LET boot_sector == ReadSector(img, 0)
    IN IF boot_sector.sig510 # BootSignature
       THEN [error |-> TRUE]
       ELSE [error |-> FALSE,
             bytes_per_sector |-> boot_sector.bps11,
             sectors_per_cluster |-> boot_sector.spc13,
             reserved_sectors |-> boot_sector.rsv14,
             num_fats |-> boot_sector.nf16,
             total_sectors |-> boot_sector.tot32,
             sectors_per_fat |-> boot_sector.spf36,
             root_cluster |-> boot_sector.root44]

\* cluster_to_offset(cluster, bpb)
cluster_to_offset(cluster, bpb) ==
    LET first_data_sector == bpb.reserved_sectors + (bpb.num_fats * bpb.sectors_per_fat)
        sector == first_data_sector + ((cluster - 2) * bpb.sectors_per_cluster)
    IN sector * bpb.bytes_per_sector

\* the bpb describes the volume that really starts at offset 0 of the file
BpbIsVolumeAtZero(img, bpb) ==
    /\ img.boot.lba = 0
    /\ bpb.bytes_per_sector = img.boot.sec.bps11
    /\ bpb.sectors_per_cluster = img.boot.sec.spc13
    /\ bpb.reserved_sectors = img.boot.sec.rsv14
    /\ bpb.num_fats = img.boot.sec.nf16
    /\ bpb.sectors_per_fat = img.boot.sec.spf36

\* read_fat(f, bpb): the masked entries of the fat_size bytes at
\* reserved_sectors * bytes_per_sector
read_fat(img, bpb) ==
    LET fat_size == bpb.sectors_per_fat * bpb.bytes_per_sector
    IN CASE fat_size = 0 -> <<>>
         [] fat_size > 0 /\ BpbIsVolumeAtZero(img, bpb) ->
               [k \in 1..(fat_size \div FatEntrySize) |-> Mask28(FatAt(img.fat1, k - 1))]

\* a walk that does not stop at a free entry
RECURSIVE ChainWalkThroughFree(_, _, _)
ChainWalkThroughFree(fat, chain, current) ==
    IF ~(current < Len(fat)) THEN [chain |-> chain, loops |-> FALSE]
    ELSE LET next_cluster == fat[current + 1]
         IN IF IsEOC(next_cluster) THEN [chain |-> chain, loops |-> FALSE]
            ELSE IF \E k \in 1..Len(chain) : chain[k] = WordNum(next_cluster)
                 THEN [chain |-> chain, loops |-> TRUE]
                 ELSE ChainWalkThroughFree(fat, Append(chain, WordNum(next_cluster)),
                                           WordNum(next_cluster))

\* get_cluster_chain(fat, start_cluster): the list built by the while loop;
\* loops is TRUE when the loop never ends (it comes back to a cluster whose
\* successor it has already followed)
RECURSIVE ChainWalk(_, _, _)
ChainWalk(fat, chain, current) ==
    IF ~(current < Len(fat)) THEN [chain |-> chain, loops |-> FALSE]
    ELSE LET next_cluster == fat[current + 1]
         IN IF IsEOC(next_cluster) THEN [chain |-> chain, loops |-> FALSE]
            ELSE IF next_cluster = WZero THEN [chain |-> chain, loops |-> FALSE]
            ELSE IF \E k \in 1..Len(chain) : chain[k] = WordNum(next_cluster)
                 THEN [chain |-> chain, loops |-> TRUE]
                 ELSE ChainWalk(fat, Append(chain, WordNum(next_cluster)),
                                WordNum(next_cluster))

get_cluster_chain(fat, start_cluster) == ChainWalk(fat, <<start_cluster>>, start_cluster)

\* read_cluster(f, cluster, bpb), as the directory records it holds
read_cluster_slots(img, cluster, bpb) ==
    LET size == bpb.sectors_per_cluster * bpb.bytes_per_sector
    IN CASE size = 0 -> <<>>
         [] size > 0 /\ BpbIsVolumeAtZero(img, bpb) /\ cluster \in DOMAIN img.dirs ->
               [k \in 1..(size \div DirEntrySize) |-> SlotAt(img.dirs[cluster], k - 1)]

\* the inner loop of list_directory on one cluster: the 'file' entries before
\* the break at the first 'end'.  Each entry carries where it was read
\* (at: position of the cluster in the chain, index of the record).
ListCluster(data, pos) ==
    LET ends == {k \in 1..Len(data) : parse_directory_entry(data[k]).type = "end"}
        stop == IF ends = {} THEN Len(data) + 1 ELSE Least(ends)
        idx == [k \in 1..(stop - 1) |-> k]
        files == SelectSeq(idx, LAMBDA k : parse_directory_entry(data[k]).type = "file")
    IN [k \in 1..Len(files) |->
           parse_directory_entry(data[files[k]]) @@ [at |-> <<pos, files[k] - 1>>]]

\* list_directory(f, bpb, start_cluster)
RECURSIVE ListClusters(_, _, _, _)
ListClusters(img, bpb, clusters, pos) ==
    IF pos > Len(clusters) THEN <<>>
    ELSE ListCluster(read_cluster_slots(img, clusters[pos], bpb), pos)
         \o ListClusters(img, bpb, clusters, pos + 1)

list_directory(img, bpb, start_cluster) ==
    LET fat == read_fat(img, bpb)
        clusters == get_cluster_chain(fat, start_cluster).chain
    IN ListClusters(img, bpb, clusters, 1)

\* find_file_in_dir(f, bpb, dir_cluster, filename): the entry, or found = FALSE
\* lines 136-139: the first of the listed files with that name
FirstNamed(files, filename) ==
    LET hits == {k \in 1..Len(files) : Upper(files[k].name) = Upper(filename)}
    IN IF hits = {} THEN [found |-> FALSE, files |-> files]
       ELSE [found |-> TRUE, files |-> files, entry |-> files[Least(hits)]]

find_file_in_dir(img, bpb, dir_cluster, filename) ==
    FirstNamed(list_directory(img, bpb, dir_cluster), filename)

\* find_directory(f, bpb, parent_cluster, dirname): start cluster, or found = FALSE
\* lines 145-147: the first of the listed files with that name that is a directory
FirstDirNamed(files, dirname) ==
    LET hits == {k \in 1..Len(files) :
                    /\ Upper(files[k].name) = Upper(dirname)
                    /\ HasBit(files[k].attr, AttrDirectory)}
    IN IF hits = {} THEN [found |-> FALSE]
       ELSE [found |-> TRUE, cluster |-> WordNum(files[Least(hits)].start_cluster)]

find_directory(img, bpb, parent_cluster, dirname) ==
    FirstDirNamed(list_directory(img, bpb, parent_cluster), dirname)

\* a write that lands one cluster further on
FileWriteShifted(img, bpb, offset, chunk) ==
    CASE BpbIsVolumeAtZero(img, bpb) /\ offset >= img.area.base ->
            [img EXCEPT !.area.runs = RunsWriteAt(img.area.runs,
                                                  offset + RunsLen(chunk) - img.area.base, chunk)]

\* f.seek(offset); f.write(chunk) on the image file
FileWrite(img, bpb, offset, chunk) ==
    CASE BpbIsVolumeAtZero(img, bpb) /\ offset >= img.area.base ->
            [img EXCEPT !.area.runs = RunsWriteAt(img.area.runs, offset - img.area.base, chunk)]

\* a loop without the break at lines 171-172: every cluster of the chain is written
RECURSIVE UpdateLoopNoBreak(_, _, _, _, _, _, _)
UpdateLoopNoBreak(img, bpb, clusters, new_data, cluster_size, i, stored) ==
    IF i >= Len(clusters) THEN [img |-> img, stored |-> stored, rewritten |-> i]
    ELSE LET offset == cluster_to_offset(clusters[i + 1], bpb)
             start == i * cluster_size
             end == Min(start + cluster_size, new_data.len)
             chunk_len == Max(end - Min(start, new_data.len), 0)
             chunk == RunsPad(Run(new_data.val, chunk_len), cluster_size)
             after == FileWrite(img, bpb, offset, chunk)
         IN UpdateLoopNoBreak(after, bpb, clusters, new_data, cluster_size, i + 1,
                              stored + chunk_len)

\* update_file, the loop body for clusters[i..]: i counts from 0 as enumerate does.
\* stored is the number of bytes of new_data written so far.
RECURSIVE UpdateLoop(_, _, _, _, _, _, _)
UpdateLoop(img, bpb, clusters, new_data, cluster_size, i, stored) ==
    IF i >= Len(clusters) THEN [img |-> img, stored |-> stored, rewritten |-> i]
    ELSE LET offset == cluster_to_offset(clusters[i + 1], bpb)
             start == i * cluster_size
             end == Min(start + cluster_size, new_data.len)
             chunk_len == Max(end - Min(start, new_data.len), 0)
             \* chunk = new_data[start:end], padded to cluster_size
             chunk == RunsPad(Run(new_data.val, chunk_len), cluster_size)
             after == FileWrite(img, bpb, offset, chunk)
         IN IF end >= new_data.len
            THEN [img |-> after, stored |-> stored + chunk_len, rewritten |-> i + 1]
            ELSE UpdateLoop(after, bpb, clusters, new_data, cluster_size, i + 1,
                            stored + chunk_len)

\* update_file(f, bpb, file_entry, new_data)
\* what update_file leaves: the image, and what it wrote
UpdateOutcome(r, clusters, cluster_size) ==
    [img |-> r.img, clusters |-> clusters, stored |-> r.stored,
     rewritten |-> r.rewritten, cluster_size |-> cluster_size]

\* lines 155-172 of update_file, for the chain read at line 153
UpdateChain(img, bpb, clusters, new_data, cluster_size) ==
    UpdateOutcome(UpdateLoop(img, bpb, clusters, new_data, cluster_size, 0, 0),
                  clusters, cluster_size)

update_file(img, bpb, file_entry, new_data) ==
    UpdateChain(img, bpb,
                get_cluster_chain(read_fat(img, bpb),
                                  WordNum(file_entry.start_cluster)).chain,
                new_data, bpb.sectors_per_cluster * bpb.bytes_per_sector)

\* lines 190-194: walk parts[:-1] from the root
RECURSIVE UpdateNavigate(_, _, _, _, _)
UpdateNavigate(img, bpb, current_cluster, parts, k) ==
    IF k > Len(parts) - 1 THEN [found |-> TRUE, cluster |-> current_cluster]
    ELSE LET r == find_directory(img, bpb, current_cluster, parts[k])
         IN IF r.found THEN UpdateNavigate(img, bpb, r.cluster, parts, k + 1)
            ELSE [found |-> FALSE, part |-> parts[k]]

\* lines 197-205: the name the file is looked up by
UpdateFatName(filename) ==
    LET dot == LastDot(filename)
        name == SubSeq(filename, 1, dot - 1)
        ext == SubSeq(filename, dot + 1, Len(filename))
    IN IF dot > 0
       THEN Ljust(SubSeq(name, 1, Min(8, Len(name))), 8)
            \o Ljust(SubSeq(ext, 1, Min(3, Len(ext))), 3)
       ELSE Ljust(SubSeq(filename, 1, Min(11, Len(filename))), 11)

\* what every outcome of update_file_in_image records
UpdateBase(img, parts, new_data) ==
    [op |-> "update", path |-> parts, src |-> new_data, pre |-> img]

\* lines 211-218: the file was found and update_file has returned upd
UpdateFound(img, parts, new_data, hit, upd) ==
    [img |-> upd.img,
     res |-> UpdateBase(img, parts, new_data)
             @@ [ok |-> TRUE, err |-> "", listed |-> hit.files,
                 entry |-> hit.entry, chain |-> upd.clusters,
                 stored |-> upd.stored, rewritten |-> upd.rewritten,
                 cluster_bytes |-> upd.cluster_size]]

\* lines 207-218: hit is what find_file_in_dir returned
UpdateLookedUp(img, bpb, parts, new_data, hit) ==
    IF ~hit.found
    THEN [img |-> img,
          res |-> UpdateBase(img, parts, new_data)
                  @@ [ok |-> FALSE, err |-> "FileNotFound", listed |-> hit.files]]
    ELSE UpdateFound(img, parts, new_data, hit,
                     update_file(img, bpb, hit.entry, new_data))

\* lines 193-218: nav is where the walk over parts[:-1] ended
UpdateNavigated(img, bpb, parts, new_data, nav) ==
    IF ~nav.found
    THEN [img |-> img,
          res |-> UpdateBase(img, parts, new_data)
                  @@ [ok |-> FALSE, err |-> "DirectoryNotFound", part |-> nav.part]]
    ELSE UpdateLookedUp(img, bpb, parts, new_data,
                        find_file_in_dir(img, bpb, nav.cluster,
                                         UpdateFatName(parts[Len(parts)])))

\* lines 185-218: bpb is what parse_fat32_bpb returned
UpdateParsed(img, bpb, parts, new_data) ==
    IF bpb.error
    THEN [img |-> img,
          res |-> UpdateBase(img, parts, new_data)
                  @@ [ok |-> FALSE, err |-> "FormatError"]]
    ELSE UpdateNavigated(img, bpb, parts, new_data,
                         UpdateNavigate(img, bpb, bpb.root_cluster, parts, 1))

\* update_file_in_image(image_path, file_in_image, source_file): parts is
\* file_in_image split at '/' and '\', new_data the source file.
\* ok = the call returns normally; otherwise err names the ValueError raised.
update_file_in_image(img, parts, new_data) ==
    UpdateParsed(img, parse_fat32_bpb(img), parts, new_data)

\* one run of the update tool on the image, with the path and the source
\* file drawn from the given sets
UpdateWith(paths, files, bound) ==
    /\ nops < bound
    /\ \E path \in paths, src \in files :
          AfterRun(update_file_in_image(Img, path, src))
    /\ nops' = nops + 1

UpdatePaths == {PathBootx64, PathKernel}
UpdateFiles == {[val |-> 67, len |-> 5000]}

Update ==
    /\ kind \in {"mbr", "gpt", "simple"}
    /\ UpdateWith(UpdatePaths, UpdateFiles, MaxOps)

Next == BuildMbr \/ BuildGpt \/ BuildSimple \/ Copy \/ Update

Spec == Init /\ [][Next]_vars

-----------------------------------------------------------------------------
(* The copy tool on images that were changed after they were built: the    *)
(* image file fat32_copy_file reads is whatever the file holds.            *)

\* number of copy runs on one changed image
MaxEspOps == 1

\* what happened to a built image before the copy tool reads it:
\*   "built"    nothing
\*   "nosig"    the boot sector of the volume lost its signature 55 AA
\*   "stale"    the first two free clusters hold the bytes of a deleted file
\*   "fullroot" the root directory holds 128 records (127 empty files added)
\*   "deleted"  as fullroot, and the record 7 was deleted (first byte 0xE5)
\*   "grown"    as fullroot, and the root directory chain was extended by
\*              cluster 5, which holds one record
\*   "nearlyfull" the file BIG.BIN of 4 clusters (5 -> 6 -> 7 -> 8) was added
\*              to the root directory: one data cluster of the volume is free
EspChanges == {"built", "nosig", "stale", "fullroot", "deleted", "grown", "nearlyfull"}

\* the image bytes fat32_copy_file reads at line 23, for a built image img
\* changed as said by change
ChangedEsp(img, change) ==
    LET file(k) == [ZeroSlot EXCEPT
                       !.name = <<70, 48 + (k \div 100), 48 + ((k \div 10) % 10), 48 + (k % 10),
                                  32, 32, 32, 32, 84, 88, 84>>,
                       !.attr = AttrArchive]
        full == img.dirs[2] \o [k \in 1..(ClusterBytes \div DirEntrySize - Len(img.dirs[2])) |-> file(k)]
        grownfat == FatSet(FatSet(img.fat1, 2, Word(5)), 5, EOC)
        bigfat == img.fat1 \o <<Word(6), Word(7), Word(8), EOC>>
        big == create_directory_entry(<<66, 73, 71>>, <<66, 73, 78>>, AttrArchive, Word(5),
                                      4 * ClusterBytes)
    IN CASE change = "built" -> img
         [] change = "nosig" -> [img EXCEPT !.boot.sec.sig510 = <<0, 0>>]
         [] change = "stale" ->
               [img EXCEPT !.area.runs = RunsAssign(@, 0, 2 * ClusterBytes,
                                                    Run(90, 2 * ClusterBytes))]
         [] change = "fullroot" -> [img EXCEPT !.dirs[2] = full]
         [] change = "deleted" ->
               [img EXCEPT !.dirs[2] = SlotSet(full, 7, [file(7) EXCEPT !.name[1] = 229])]
         [] change = "grown" ->
               [img EXCEPT !.dirs = (2 :> full) @@ (5 :> <<file(128)>>) @@ @,
                           !.fat1 = grownfat,
                           !.fat2 = grownfat,
                           !.area = [base |-> @.base + ClusterBytes,
                                     runs |-> RunsDrop(@.runs, ClusterBytes)]]
         [] change = "nearlyfull" ->
               [img EXCEPT !.dirs[2] = Append(@, big),
                           !.fat1 = bigfat,
                           !.fat2 = bigfat,
                           !.area.runs = RunsAssign(@, 0, 4 * ClusterBytes,
                                                    Run(91, 4 * ClusterBytes))]

InitEsp ==
    /\ \E img \in {create_efi_bootable_image, create_simple_esp_image},
          change \in EspChanges :
          /\ kind = img.kind
          /\ sector0 = ChangedEsp(img, change).sector0
          /\ gpt = img.gpt
          /\ boot = ChangedEsp(img, change).boot
          /\ fat1 = ChangedEsp(img, change).fat1
          /\ fat2 = ChangedEsp(img, change).fat2
          /\ dirs = ChangedEsp(img, change).dirs
          /\ area = ChangedEsp(img, change).area
          /\ last = [op |-> "changed", change |-> change]
    /\ nops = 0

CopyEsp ==
    /\ nops < MaxEspOps
    /\ \E path \in CopyPaths, src \in SrcFiles, now \in Clock :
          AfterRun(fat32_copy_file(Img, src, path, now))
    /\ nops' = nops + 1

NextEsp == CopyEsp

SpecEsp == InitEsp /\ [][NextEsp]_vars

-----------------------------------------------------------------------------
(* The update tool on a FAT32 volume that starts at offset 0 of the image  *)
(* file (the sector parse_fat32_bpb reads is the volume's boot sector).    *)

\* longest cluster chain of a file on these volumes
MaxChain == 10
\* number of update runs on one volume
MaxVolOps == 1

NameData == <<68, 65, 84, 65>>
NameGhost == <<71, 72, 79, 83, 84>>
NameBin == <<66, 73, 78>>
NameKERNEL == <<75, 69, 82, 78, 69, 76>>

\* A volume of 512-byte sectors and 8-sector clusters with one FAT sector per
\* copy.  The root directory starts at cluster 2; with two_clusters its chain
\* is 2 -> 3.  DATA.BIN is the first root record and owns a chain of m
\* clusters among 4 .. 3+m (descending when fragmented), the k-th filled with
\* the byte 100+k.  The second root record is KERNEL, a name without
\* extension, whose chain is the cluster 5+m, filled with the byte 201.  The
\* third record of cluster 2 is the end-of-directory marker.  Cluster 3 holds
\* an older record, GHOST.BIN, whose chain is the cluster 4+m, filled with
\* the byte 200.
RawVolume(m, fragmented, two_clusters) ==
    LET nclusters == m + 4
        total_sectors == ReservedSectors + NumFats + nclusters * ClusterSectors
        sec == create_fat32_boot_sector(ClusterSectors, ReservedSectors, NumFats,
                                        1, total_sectors, 2, 0)
        chain == [k \in 1..m |-> IF fragmented THEN 4 + m - k ELSE 3 + k]
        fat == [j \in 1..(m + 6) |->
                   LET c == j - 1
                   IN IF c = 0 THEN MediaMarker
                      ELSE IF c = 1 THEN AllOnes
                      ELSE IF c = 2 THEN (IF two_clusters THEN Word(3) ELSE EOC)
                      ELSE IF c = 3 THEN (IF two_clusters THEN EOC ELSE WZero)
                      ELSE IF c >= 4 + m THEN EOC
                      ELSE LET k == CHOOSE k \in 1..m : chain[k] = c
                           IN IF k = m THEN EOC ELSE Word(chain[k + 1])]
        data_offset == (ReservedSectors + NumFats) * SectorSize
        base == data_offset + 2 * ClusterBytes
        content(c) == IF c >= 4 + m THEN 196 + c - m
                      ELSE 100 + (CHOOSE k \in 1..m : chain[k] = c)
        RECURSIVE Fill(_)
        Fill(c) == IF c > 5 + m THEN <<>>
                   ELSE RunsCat(Run(content(c), ClusterBytes), Fill(c + 1))
    IN [kind |-> "raw",
        sector0 |-> sec,
        gpt |-> <<>>,
        boot |-> [lba |-> 0, sec |-> sec],
        fat1 |-> fat,
        fat2 |-> fat,
        dirs |-> (2 :> <<create_directory_entry(NameData, NameBin, AttrArchive,
                                                Word(chain[1]), m * ClusterBytes - 7),
                     create_directory_entry(NameKERNEL, <<>>, AttrArchive,
                                            Word(5 + m), 10)>>)
                 @@ (3 :> <<create_directory_entry(NameGhost, NameBin, AttrArchive,
                                                   Word(4 + m), 10)>>),
        area |-> [base |-> base, runs |-> Fill(4)]]

InitVol ==
    /\ \E m \in 1..MaxChain, fragmented \in BOOLEAN, two_clusters \in BOOLEAN :
          LET v == RawVolume(m, fragmented, two_clusters)
          IN /\ kind = v.kind
             /\ sector0 = v.sector0
             /\ gpt = v.gpt
             /\ boot = v.boot
             /\ fat1 = v.fat1
             /\ fat2 = v.fat2
             /\ dirs = v.dirs
             /\ area = v.area
    /\ nops = 0
    /\ last = [op |-> "none"]

PathData == <<(<<100, 97, 116, 97, 46, 98, 105, 110>>)>>
PathGhost == <<(<<71, 72, 79, 83, 84, 46, 66, 73, 78>>)>>
PathAbsent == <<(<<78, 79, 78, 69, 46, 66, 73, 78>>)>>
VolPaths == {PathData, PathGhost, PathAbsent, PathKernel}
VolFiles ==
    {[val |-> 67, len |-> n] :
        n \in {0, 1, ClusterBytes, ClusterBytes + 1, 3 * ClusterBytes,
               MaxChain * ClusterBytes, MaxChain * ClusterBytes + 1}}

UpdateVol ==
    /\ kind = "raw"
    /\ UpdateWith(VolPaths, VolFiles, MaxVolOps)

NextVol == UpdateVol

SpecVol == InitVol /\ [][NextVol]_vars

-----------------------------------------------------------------------------
(* The directory-record codec on its own: a cluster number is encoded by   *)
(* create_directory_entry and decoded by parse_directory_entry.            *)

\* 32-bit cluster numbers K = hi * 65536 + lo
ClusterSamples ==
    {<<hi, lo>> : hi \in {0, 1, 2, 255, 256, 4095, 32767, 32768, 65535},
                  lo \in {0, 1, 2, 3, 255, 256, 65535}}

InitCodec ==
    /\ kind = "codec"
    /\ sector0 = ZeroSector
    /\ gpt = <<>>
    /\ boot = [lba |-> 0, sec |-> ZeroSector]
    /\ fat1 = <<>>
    /\ fat2 = <<>>
    /\ dirs = <<>>
    /\ area = [base |-> 0, runs |-> <<>>]
    /\ nops = 0
    /\ \E K \in ClusterSamples : last = [op |-> "input", K |-> K]

Encode ==
    /\ last.op = "input"
    /\ \E attr \in {AttrDirectory, AttrArchive} :
          last' = [op |-> "encoded", K |-> last.K,
                   entry |-> create_directory_entry(NameData, NameBin, attr, last.K, 0)]
    /\ UNCHANGED <<kind, sector0, gpt, boot, fat1, fat2, dirs, area, nops>>

Decode ==
    /\ last.op = "encoded"
    /\ last' = [op |-> "decoded", K |-> last.K, entry |-> last.entry,
                out |-> parse_directory_entry(last.entry)]
    /\ UNCHANGED <<kind, sector0, gpt, boot, fat1, fat2, dirs, area, nops>>

NextCodec == Encode \/ Decode

SpecCodec == InitCodec /\ [][NextCodec]_vars

-----------------------------------------------------------------------------
(* get_cluster_chain on its own: the list read_fat returned is any FAT of  *)
(* ChainFatLen masked entries, the start cluster any data cluster of it.   *)

\* number of entries of the FAT
ChainFatLen == 5

\* what a FAT entry of a data cluster can hold: free, end of chain (either
\* marker), a link to a data cluster, a link past the end of the FAT
FatEntryValues ==
    {WZero, EOC, Mask28(MediaMarker), Word(ChainFatLen + 3)}
    \cup {Word(c) : c \in 2..(ChainFatLen - 1)}

InitChain ==
    /\ kind = "fat"
    /\ sector0 = ZeroSector
    /\ gpt = <<>>
    /\ boot = [lba |-> 0, sec |-> ZeroSector]
    /\ fat1 \in {<<Mask28(MediaMarker), Mask28(AllOnes)>> \o t :
                     t \in [1..(ChainFatLen - 2) -> FatEntryValues]}
    /\ fat2 = fat1
    /\ dirs = <<>>
    /\ area = [base |-> 0, runs |-> <<>>]
    /\ nops = 0
    /\ \E start_cluster \in 2..(ChainFatLen - 1) :
          last = [op |-> "input", start |-> start_cluster]

\* chain = get_cluster_chain(fat, start_cluster); loops says that the call
\* never returns
Walk ==
    /\ last.op = "input"
    /\ last' = [op |-> "walk", start |-> last.start]
                @@ get_cluster_chain(fat1, last.start)
    /\ UNCHANGED <<kind, sector0, gpt, boot, fat1, fat2, dirs, area, nops>>

NextChain == Walk

SpecChain == InitChain /\ [][NextChain]_vars

-----------------------------------------------------------------------------
(* The layout computation of the builders on its own, for the partition    *)
(* sizes of the three builders and for every small partition.              *)

\* largest of the small partitions, in sectors
LayoutMaxSectors == 1200

\* partition_sectors / esp_sectors: the 64 MB images of create-fat32-image.py,
\* create-gpt-image.py and create-simple-esp.py, and the small partitions
LayoutSizes ==
    {131072 - 2048, (131072 - 34 - 1) - 2048 + 1, 131072 - 1} \cup (1..LayoutMaxSectors)

InitLayout ==
    /\ kind = "layout"
    /\ sector0 = ZeroSector
    /\ gpt = <<>>
    /\ boot = [lba |-> 0, sec |-> ZeroSector]
    /\ fat1 = <<>>
    /\ fat2 = <<>>
    /\ dirs = <<>>
    /\ area = [base |-> 0, runs |-> <<>>]
    /\ nops = 0
    /\ \E partition_sectors \in LayoutSizes :
          last = [op |-> "input", partition_sectors |-> partition_sectors]

\* the lines "Calculate FAT size" ... "Recalculate" of a builder
Layout ==
    /\ last.op = "input"
    /\ last' = [op |-> "layout", partition_sectors |-> last.partition_sectors]
                @@ FatLayout(last.partition_sectors)
    /\ UNCHANGED <<kind, sector0, gpt, boot, fat1, fat2, dirs, area, nops>>

NextLayout == Layout

SpecLayout == InitLayout /\ [][NextLayout]_vars

-----------------------------------------------------------------------------
(* Properties of the copy tool and the builders (Spec)                     *)

\* the masked FAT entry of a cluster in the first FAT copy of the image
C_FatEntry(c) == Mask28(FatAt(fat1, c))

\* C1 (as stated): a successful copy of S bytes with cluster size C allocates
\* a chain of exactly ceil(S/C) clusters, and the FAT entry of the chain's last
\* cluster, masked with 0x0FFFFFFF, is 0x0FFFFFFF.
C1_AsStated ==
    (last.op = "copy" /\ last.ok) =>
        /\ Len(last.chain) = CeilDiv(last.src.len, last.cluster_bytes)
        /\ Len(last.chain) > 0 => C_FatEntry(last.chain[Len(last.chain)]) = EOC

\* C1 (amended): a successful copy of S bytes with cluster size C allocates a
\* chain of exactly max(1, ceil(S/C)) clusters -- an empty file still takes one
\* cluster -- and the FAT entry of the chain's last cluster, masked with
\* 0x0FFFFFFF, is 0x0FFFFFFF.
C1_ChainLength ==
    (last.op = "copy" /\ last.ok) =>
        /\ Len(last.chain) = Max(1, CeilDiv(last.src.len, last.cluster_bytes))
        /\ C_FatEntry(last.chain[Len(last.chain)]) = EOC

\* a 5000-byte file was copied with 4096-byte clusters into 2 clusters
C1_Witness ==
    /\ last.op = "copy" /\ last.ok
    /\ last.src.len = 5000 /\ last.cluster_bytes = 4096
    /\ Len(last.chain) = 2
    /\ C_FatEntry(last.chain[1]) = Word(last.chain[2])

\* C2: after a build by any of the three builders and any sequence of
\* successful or failed copy and update runs, the two FAT copies of the volume
\* are byte-identical.
C2_FatCopiesIdentical ==
    kind \in {"mbr", "gpt", "simple"} => fat1 = fat2

\* a second successful copy has just changed the FAT
C2_Witness ==
    /\ nops = 2
    /\ last.op = "copy" /\ last.ok
    /\ fat1 # last.pre.fat1
    /\ Len(fat2) > 5

\* the GPT header bytes [a, a+n) of a 92-byte header, offsets from 0
C_Bytes(h, a, n) == SubSeq(h, a + 1, a + n)

\* C5: in the image the GPT builder writes, the header CRC32 stored at header
\* offset 16 is the CRC32 of the final header bytes 0..91 taken with the CRC
\* field at offset 16 set to zero.
C5_HeaderCrcValidates ==
    (kind = "gpt" /\ last.op = "build") =>
        C_Bytes(gpt.hdr, 16, 4) = PackW(crc32(BytesPut(gpt.hdr, 16, <<0, 0, 0, 0>>)))

\* C6: the entry-array CRC field at header offset 88 is the CRC32 of the
\* 128 x 128-byte entry array as it is in the final image, and the header CRC
\* in the image was computed over a header that already held that entry-array
\* CRC and had every other field outside the header CRC field final.
C6_CrcOrder ==
    (kind = "gpt" /\ last.op = "build") =>
        /\ C_Bytes(gpt.hdr, 88, 4) = PackW(crc32z(gpt.ent, 128 * 128 - Len(gpt.ent)))
        /\ C_Bytes(gpt.crc_input, 88, 4) = C_Bytes(gpt.hdr, 88, 4)
        /\ C_Bytes(gpt.crc_input, 0, 16) = C_Bytes(gpt.hdr, 0, 16)
        /\ C_Bytes(gpt.crc_input, 20, 72) = C_Bytes(gpt.hdr, 20, 72)
        /\ C_Bytes(gpt.hdr, 16, 4) = PackW(crc32(gpt.crc_input))

\* a GPT image was just built, with a non-zero entry-array CRC in its header
C6_Witness ==
    /\ kind = "gpt" /\ last.op = "build"
    /\ Len(gpt.hdr) = 92
    /\ C_Bytes(gpt.hdr, 88, 4) # <<0, 0, 0, 0>>
    /\ Len(gpt.ent) > 56

\* the records of a directory cluster before its first end-of-directory
\* marker (a record whose first byte is 0)
C_RecordsBeforeEnd(slots) ==
    LET ends == {k \in 1..Len(slots) : slots[k].name[1] = 0}
    IN SubSeq(slots, 1, IF ends = {} THEN Len(slots) ELSE Least(ends) - 1)

\* C7: a freshly created MBR-based image has partition type 0xEF at offset
\* 450, the bytes 55 AA at offsets 510-511, and a root directory (cluster 2)
\* whose only entry before the end-of-directory marker is named EFI, has
\* attribute 0x10 and starts at cluster 3.
C7_FreshMbrImage ==
    (kind \in {"mbr", "simple"} /\ last.op = "build") =>
        /\ sector0.type450 = 239
        /\ sector0.sig510 = <<85, 170>>
        /\ LET root == C_RecordsBeforeEnd(
                           [k \in 1..(ClusterBytes \div DirEntrySize) |->
                               SlotAt(dirs[boot.sec.root44], k - 1)])
           IN /\ boot.sec.root44 = 2
              /\ Len(root) = 1
              /\ root[1].name = <<69, 70, 73, 32, 32, 32, 32, 32, 32, 32, 32>>
              /\ root[1].attr = 16
              /\ UnpackH(root[1].clhi) = 0
              /\ UnpackH(root[1].cllo) = 3

\* the image of tools/create-fat32-image.py, just built
C7_Witness ==
    /\ kind = "mbr" /\ last.op = "build"
    /\ sector0.lba454 = PartitionStart
    /\ dirs[2] # <<>>

\* the clusters 2 .. nentries-1 that are free in a FAT
C_FreeClusters(fat, nentries) ==
    {c \in 2..(nentries - 1) : Mask28(FatAt(fat, c)) = WZero}

\* C8: the chain a successful copy returns consists of the n lowest-indexed
\* clusters >= 2 whose masked FAT entry was 0 before the call, in ascending
\* order; afterwards FAT[chain[i]] = chain[i+1] for i < n-1 and
\* FAT[chain[n-1]] = 0x0FFFFFFF.
C8_FirstFit ==
    (last.op = "copy" /\ last.ok) =>
        LET chain == last.chain
            n == Len(chain)
            nentries == (last.pre.boot.sec.spf36 * last.pre.boot.sec.bps11) \div 4
            free == C_FreeClusters(last.pre.fat1, nentries)
        IN /\ n = last.clusters_needed
           /\ \A i \in 1..n : chain[i] \in free
           /\ \A i \in 1..(n - 1) : chain[i] < chain[i + 1]
           /\ \A c \in free : c < chain[n] => \E i \in 1..n : chain[i] = c
           /\ \A i \in 1..(n - 1) : C_FatEntry(chain[i]) = Word(chain[i + 1])
           /\ C_FatEntry(chain[n]) = EOC

\* a second file was given two clusters above those of the first
C8_Witness ==
    /\ nops = 2
    /\ last.op = "copy" /\ last.ok
    /\ Len(last.chain) = 2
    /\ last.chain[1] > 5
    /\ last.pre.fat1 # fat1

\* C11: a copy whose target directory has a free record but whose FAT holds
\* fewer free clusters than the file needs fails with InsufficientSpace, which
\* reports the needed and the found cluster counts, and leaves the image (both
\* FAT copies, every directory record, every data byte) as it was before the
\* call; no copy succeeds with fewer free clusters than it needs.
C11_InsufficientSpaceNoWrite ==
    last.op = "copy" =>
        LET nentries == (last.pre.boot.sec.spf36 * last.pre.boot.sec.bps11) \div 4
            found == Cardinality(C_FreeClusters(last.pre.fat1, nentries))
            needed == Max(1, CeilDiv(last.src.len, last.cluster_bytes))
        IN /\ last.ok => found >= needed
           /\ (~last.ok /\ last.err \notin {"DirectoryNotFound", "DirectoryFull"}) =>
                 /\ last.err = "InsufficientSpace"
                 /\ found < needed
                 /\ last.needed = needed
                 /\ last.found = found
                 /\ Img = last.pre

\* a file of 260 clusters was refused on an image that already holds a file:
\* fewer than 251 clusters were found free
C11_Witness ==
    /\ nops = 2
    /\ last.op = "copy" /\ last.err = "InsufficientSpace"
    /\ last.needed = 260 /\ last.found < 251
    /\ Len(last.pre.fat1) > 5
    /\ Img = last.pre

\* the start cluster of the directory record named part (upper-cased, padded
\* to 11 bytes) among the records before the end marker of a one-cluster
\* directory, or 0 when there is no such record with the Directory attribute
C_ChildDir(img, cluster, part) ==
    LET recs == C_RecordsBeforeEnd([k \in 1..(ClusterBytes \div DirEntrySize) |->
                                       DirSlot(img, cluster, k - 1)])
        hits == {k \in 1..Len(recs) :
                    /\ recs[k].name = Ljust(Upper(part), 11)
                    /\ recs[k].attr # 15
                    /\ HasBit(recs[k].attr, AttrDirectory)}
    IN IF hits = {} THEN 0
       ELSE UnpackH(recs[Least(hits)].cllo) + 65536 * UnpackH(recs[Least(hits)].clhi)

\* the index of the first component of parts[k .. Len-1] that is not a
\* directory of its parent, walking from cluster; 0 when all are
RECURSIVE C_FirstMissing(_, _, _, _)
C_FirstMissing(img, cluster, parts, k) ==
    IF k > Len(parts) - 1 THEN 0
    ELSE IF C_ChildDir(img, cluster, parts[k]) = 0 THEN k
    ELSE C_FirstMissing(img, C_ChildDir(img, cluster, parts[k]), parts, k + 1)

\* C12: a copy or update run on a built image fails with DirectoryNotFound
\* naming the component exactly when an intermediate component of the path is
\* missing from its parent directory or is a record without the Directory
\* attribute; it descends when the component is a directory; and the failure
\* leaves the image unchanged.
C12_DirectoryNotFound ==
    (last.op \in {"copy", "update"}) =>
        LET k == C_FirstMissing(last.pre, last.pre.boot.sec.root44, last.path, 1)
        IN /\ k > 0 => /\ last.err = "DirectoryNotFound"
                       /\ last.part = last.path[k]
                       /\ Img = last.pre
           /\ k = 0 => last.err # "DirectoryNotFound"

\* C15: in the volume every builder produces, in both FAT copies entry 0 is
\* 0x0FFFFFF8, entry 1 is not zero, the entries 2, 3 and 4 masked with
\* 0x0FFFFFFF are 0x0FFFFFFF and every entry from 5 on is 0; the root directory
\* (cluster 2) holds the directory record EFI with start cluster 3 and EFI
\* holds the directory record BOOT with start cluster 4.
C15_FreshVolume ==
    (kind \in {"mbr", "gpt", "simple"} /\ last.op = "build") =>
        /\ \A fat \in {fat1, fat2} :
              /\ FatAt(fat, 0) = <<4095, 65528>>
              /\ FatAt(fat, 1) # <<0, 0>>
              /\ \A c \in 2..4 : Mask28(FatAt(fat, c)) = <<4095, 65535>>
              /\ \A c \in 5..((boot.sec.spf36 * boot.sec.bps11) \div 4 - 1) :
                    FatAt(fat, c) = <<0, 0>>
        /\ boot.sec.root44 = 2
        /\ C_ChildDir(Img, 2, NameEFI) = 3
        /\ C_ChildDir(Img, 3, NameBOOT) = 4

\* the GPT builder has just written a volume with a FAT of 256 entries
C15_Witness ==
    /\ kind = "gpt" /\ last.op = "build"
    /\ (boot.sec.spf36 * boot.sec.bps11) \div 4 = 256
    /\ Len(fat1) = 5 /\ Len(fat2) = 5
    /\ Len(dirs[3]) = 3

\* the clusters of the chain that starts at cluster c, by the first FAT copy
C_DirChain(img, c) ==
    get_cluster_chain([k \in 1..Len(img.fat1) |-> Mask28(img.fat1[k])], c).chain

\* the records <<directory cluster, index from 1>> of the image that name a
\* file or a subdirectory: not free, not deleted, not '.' or '..'
C_Entries ==
    {e \in UNION {{<<d, k>> : k \in 1..Len(dirs[d])} : d \in DOMAIN dirs} :
        dirs[e[1]][e[2]].name[1] \notin {0, 229, 46}}

\* the set of clusters of the chain of the record e
C_ChainOf(e) ==
    LET r == dirs[e[1]][e[2]]
        chain == C_DirChain(Img, UnpackH(r.cllo) + 65536 * UnpackH(r.clhi))
    IN {chain[i] : i \in 1..Len(chain)}

\* the bytes of cluster c, c >= 5, of an image whose volume has its data
\* area at data_offset
C_DataCluster(img, data_offset, c) ==
    LET off == data_offset + (c - 2) * ClusterBytes - img.area.base
    IN RunsSlice(img.area.runs, off, off + ClusterBytes)

\* C23: after any sequence of builds and copies, (a) every cluster a
\* successful copy allocated is >= 2 and had the FAT entry 0 before the copy,
\* (b) no cluster is in the chains of two different directory records, and
\* (c) a copy leaves unchanged, for every cluster whose FAT entry was not 0
\* before it, the FAT entry in both copies and the content: the bytes of a data
\* cluster, and every record of a directory cluster other than the free record
\* that received the new entry.
C23_ChainsDisjoint ==
    kind \in {"mbr", "gpt", "simple"} =>
        /\ \A e1 \in C_Entries, e2 \in C_Entries :
              e1 # e2 => C_ChainOf(e1) \cap C_ChainOf(e2) = {}
        /\ last.op = "copy" =>
              LET nentries == (last.pre.boot.sec.spf36 * last.pre.boot.sec.bps11) \div 4
                  used == {c \in 2..(nentries - 1) : FatAt(last.pre.fat1, c) # <<0, 0>>}
              IN /\ last.ok => \A i \in 1..Len(last.chain) :
                                  /\ last.chain[i] >= 2
                                  /\ last.chain[i] \notin used
                 /\ \A c \in used :
                       /\ FatAt(fat1, c) = FatAt(last.pre.fat1, c)
                       /\ FatAt(fat2, c) = FatAt(last.pre.fat2, c)
                       /\ c \notin DOMAIN dirs =>
                             C_DataCluster(Img, last.data_offset, c)
                                = C_DataCluster(last.pre, last.data_offset, c)
                       /\ c \in DOMAIN dirs =>
                             \A k \in 0..(ClusterBytes \div DirEntrySize - 1) :
                                \/ DirSlot(Img, c, k) = DirSlot(last.pre, c, k)
                                \/ /\ last.ok
                                   /\ c = last.dir_cluster /\ k = last.entry_idx
                                   /\ DirSlot(last.pre, c, k).name[1] \in {0, 229}

\* a second file was copied in next to the first: both chains are in the
\* FAT and the clusters of the first file hold what they held
C23_Witness ==
    /\ nops = 2
    /\ last.op = "copy" /\ last.ok
    /\ last.src.len = 5000
    /\ last.chain = <<7, 8>>
    /\ FatAt(last.pre.fat1, 5) = Word(6)
    /\ C_DataCluster(Img, last.data_offset, 5) = Run(66, ClusterBytes)
    /\ Cardinality(C_Entries) = 4

\* C24: after any sequence of copies, no directory holds two records in use
\* (not free, not deleted) with the same 11 name bytes.
C24_NoDuplicateNames ==
    kind \in {"mbr", "gpt", "simple"} =>
        \A d \in DOMAIN dirs :
            \A k1 \in 1..Len(dirs[d]), k2 \in 1..Len(dirs[d]) :
                (/\ k1 # k2
                 /\ dirs[d][k1].name[1] \notin {0, 229}
                 /\ dirs[d][k2].name[1] \notin {0, 229}) =>
                    dirs[d][k1].name # dirs[d][k2].name

-----------------------------------------------------------------------------
(* Properties of the copy tool on changed images (SpecEsp)                 *)

\* the cluster of the directory that parts[:-1] leads to from cluster
RECURSIVE C_TargetDir(_, _, _, _)
C_TargetDir(img, cluster, parts, k) ==
    IF k > Len(parts) - 1 THEN cluster
    ELSE C_TargetDir(img, C_ChildDir(img, cluster, parts[k]), parts, k + 1)

\* the free records <<position in the chain, index in the cluster>> of the
\* directory whose chain is given: first byte 0x00 or 0xE5
C_FreeRecords(img, chain) ==
    {pi \in (1..Len(chain)) \X (0..(ClusterBytes \div DirEntrySize - 1)) :
        DirSlot(img, chain[pi[1]], pi[2]).name[1] \in {0, 229}}

\* C13: a copy that found its target directory fails with DirectoryFull if
\* and only if no record in any cluster of the target directory's chain has
\* first byte 0x00 or 0xE5; otherwise the new record goes to the first such
\* record of the chain; and the directory's chain is the same afterwards.
C13_DirectoryFull ==
    (last.op = "copy" /\ last.err # "DirectoryNotFound") =>
        LET dir == C_TargetDir(last.pre, last.pre.boot.sec.root44, last.path, 1)
            chain == C_DirChain(last.pre, dir)
            free == C_FreeRecords(last.pre, chain)
        IN /\ (last.err = "DirectoryFull") <=> (free = {})
           /\ last.ok =>
                 \E pi \in free :
                    /\ \A q \in free : pi[1] < q[1] \/ (pi[1] = q[1] /\ pi[2] <= q[2])
                    /\ last.dir_cluster = chain[pi[1]]
                    /\ last.entry_idx = pi[2]
                    /\ DirSlot(Img, chain[pi[1]], pi[2]).name = CopyFatName(last.path[Len(last.path)])
           /\ C_DirChain(Img, dir) = chain

\* C17: a copy or update run on a volume whose boot sector does not carry
\* the signature 55 AA at offset 510 fails with FormatError and leaves the
\* image as it was.
C17_FormatError ==
    (last.op \in {"copy", "update"} /\ last.pre.boot.sec.sig510 # <<85, 170>>) =>
        /\ ~last.ok
        /\ last.err = "FormatError"
        /\ Img = last.pre

-----------------------------------------------------------------------------
(* Properties of the directory-record codec (SpecCodec)                    *)

\* C3: for every 32-bit cluster number K, high 16 bits included, encoding a
\* directory entry with cluster K and decoding it yields K unchanged.
C3_ClusterRoundTrip ==
    last.op = "decoded" =>
        /\ last.out.type = "file"
        /\ last.out.start_cluster = last.K

\* a cluster number with a non-zero high half has been encoded and decoded
C3_Witness ==
    /\ last.op = "decoded"
    /\ last.K = <<65535, 65535>>
    /\ last.entry.clhi = <<255, 255>>

-----------------------------------------------------------------------------
(* Properties of the update tool (SpecVol)                                 *)

\* the volume the last update ran on, as parse_fat32_bpb reads it
C_Bpb == parse_fat32_bpb(last.pre)

\* the cluster_bytes bytes of a cluster in an image
C_ClusterRuns(img, c) ==
    LET off == cluster_to_offset(c, C_Bpb) - img.area.base
    IN RunsSlice(img.area.runs, off, off + ClusterBytes)

\* the chain of the root directory before the last update
C_RootChain == get_cluster_chain(read_fat(last.pre, C_Bpb), C_Bpb.root_cluster).chain

\* the record at index idx of the pos-th cluster of the root directory
C_RootRecord(pos, idx) == SlotAt(last.pre.dirs[C_RootChain[pos]], idx)

\* C4: directory iteration never returns a record located after the first
\* record whose first byte is 0x00, records in later clusters of a
\* multi-cluster directory included.
C4_StopsAtEndMarker ==
    (last.op = "update" /\ "listed" \in DOMAIN last) =>
        \A k \in 1..Len(last.listed) :
            LET at == last.listed[k].at
            IN \A pos \in 1..at[1] :
                  \A idx \in 0..(IF pos = at[1] THEN at[2]
                                 ELSE ClusterBytes \div DirEntrySize - 1) :
                      C_RootRecord(pos, idx).name[1] # 0

\* the bytes a cluster holds after new data of length L (byte val) is stored
\* in it as the i-th cluster of a chain, i from 1
C_NewCluster(src, i) ==
    RunsPad(Run(src.val, Min(ClusterBytes, src.len - (i - 1) * ClusterBytes)),
            ClusterBytes)

\* C9: an update of a file whose chain has m clusters with new data of length
\* L, 0 < L <= m*C, rewrites exactly the first k = ceil(L/C) clusters of the
\* chain, the k-th zero-padded to the cluster boundary; clusters k+1..m keep
\* their previous bytes and stay linked in the FAT.
C9_ShortUpdateFrame ==
    (/\ last.op = "update" /\ last.ok
     /\ 0 < last.src.len
     /\ last.src.len <= Len(last.chain) * ClusterBytes) =>
        LET m == Len(last.chain)
            k == CeilDiv(last.src.len, ClusterBytes)
        IN /\ last.rewritten = k
           /\ \A i \in 1..k :
                 C_ClusterRuns(Img, last.chain[i]) = C_NewCluster(last.src, i)
           /\ \A i \in (k + 1)..m :
                 C_ClusterRuns(Img, last.chain[i]) = C_ClusterRuns(last.pre, last.chain[i])
           /\ fat1 = last.pre.fat1 /\ fat2 = last.pre.fat2
           /\ get_cluster_chain(read_fat(Img, C_Bpb),
                                WordNum(last.entry.start_cluster)).chain = last.chain

\* a file of 10 clusters was updated with 3 clusters' worth of data
C9_Witness ==
    /\ last.op = "update" /\ last.ok
    /\ Len(last.chain) = 10
    /\ last.src.len = 3 * ClusterBytes
    /\ last.rewritten = 3
    /\ C_ClusterRuns(Img, last.chain[4]) = Run(104, ClusterBytes)

\* C10: an update that stores a number of bytes different from the length of
\* its data is reported to the caller as a TruncationLoss failure, never as a
\* success.
C10_TruncationSurfaced ==
    (/\ last.op = "update"
     /\ "stored" \in DOMAIN last
     /\ last.stored # last.src.len) =>
        /\ ~last.ok
        /\ last.err = "TruncationLoss"

\* the 11-character form of a requested name: name upper-cased and padded to
\* 8, extension upper-cased and padded to 3 (the form the copy tool stores)
C_ElevenChars(filename) == CopyFatName(filename)

\* C14: update's lookup of a file in the root directory finds a record
\* exactly when the requested name in its 11-character form equals the 11 name
\* bytes of the record: a name that is stored before the end marker of the
\* directory is found, whether it has an extension or not and whether it is
\* asked for in upper or lower case, and a record that is found has these 11
\* name bytes.
C14_LookupByName ==
    (last.op = "update" /\ Len(last.path) = 1 /\ last.err # "FormatError") =>
        LET want == C_ElevenChars(last.path[1])
            stored == C_RecordsBeforeEnd(
                          [k \in 1..(ClusterBytes \div DirEntrySize) |-> C_RootRecord(1, k - 1)])
        IN /\ (\E k \in 1..Len(stored) : stored[k].name = want) =>
                 last.err # "FileNotFound"
           /\ "entry" \in DOMAIN last =>
                 C_RootRecord(last.entry.at[1], last.entry.at[2]).name = want

\* C20: an update, whatever the length of its data (shorter than, equal to
\* or longer than the capacity of the chain), changes only bytes inside the
\* clusters of the chain of the file it found: the boot sector, both FAT
\* copies, every directory record (the file's own start cluster and size
\* included) and every cluster outside that chain are as before, and the image
\* has not grown.
C20_UpdateFrame ==
    (last.op = "update") =>
        /\ sector0 = last.pre.sector0 /\ boot = last.pre.boot
        /\ fat1 = last.pre.fat1 /\ fat2 = last.pre.fat2
        /\ dirs = last.pre.dirs
        /\ area.base = last.pre.area.base
        /\ RunsLen(area.runs) = RunsLen(last.pre.area.runs)
        /\ \A c \in 4..(3 + RunsLen(last.pre.area.runs) \div ClusterBytes) :
              (\/ "chain" \notin DOMAIN last
               \/ \A i \in 1..Len(last.chain) : last.chain[i] # c) =>
                  C_ClusterRuns(Img, c) = C_ClusterRuns(last.pre, c)

\* a file of 2 clusters was updated with data of 3 clusters: its clusters
\* changed and nothing else did
C20_Witness ==
    /\ last.op = "update" /\ "chain" \in DOMAIN last
    /\ Len(last.chain) = 2
    /\ last.src.len = 3 * ClusterBytes
    /\ area # last.pre.area
    /\ \A i \in 1..2 : C_ClusterRuns(Img, last.chain[i]) = Run(67, ClusterBytes)
    /\ dirs = last.pre.dirs

-----------------------------------------------------------------------------
(* Properties of the cluster-chain walk (SpecChain)                        *)

\* C16: get_cluster_chain returns (with a finite list) for every start
\* cluster and every FAT, also when the links of the FAT form a cycle.
C16_WalkTerminates ==
    last.op = "walk" => ~last.loops

\* C18: when get_cluster_chain returns, its list begins with the start
\* cluster, each next element is the FAT entry of the one before (link
\* order), and the FAT entry of the last cluster is an end-of-chain value
\* (>= 0x0FFFFFF8) or, when a free entry stopped the walk, 0; cluster 0 is
\* never in the list.
C18_ChainInLinkOrder ==
    (last.op = "walk" /\ ~last.loops) =>
        LET chain == last.chain
            n == Len(chain)
        IN /\ n >= 1 /\ chain[1] = last.start
           /\ \A i \in 1..n : chain[i] # 0
           /\ \A i \in 1..(n - 1) :
                 /\ chain[i] < Len(fat1)
                 /\ fat1[chain[i] + 1] = Word(chain[i + 1])
                 /\ ~IsEOC(fat1[chain[i] + 1])
           /\ chain[n] < Len(fat1) =>
                 IsEOC(fat1[chain[n] + 1]) \/ fat1[chain[n] + 1] = WZero

\* the chain 2 -> 4 -> 3 was returned in link order, 3 holding the end mark
C18_Witness ==
    /\ last.op = "walk" /\ ~last.loops
    /\ last.chain = <<2, 4, 3>>
    /\ IsEOC(fat1[4])

-----------------------------------------------------------------------------
(* Properties of what a copy leaves in the image (SpecEsp)                 *)

\* the bytes of cluster c of the volume the last copy wrote to
C_CopiedCluster(c) ==
    LET off == last.data_offset + (c - 2) * last.cluster_bytes - area.base
    IN RunsSlice(area.runs, off, off + last.cluster_bytes)

\* C19: after a successful copy the target directory holds, before its first
\* end-of-directory marker, a record with the 8.3 name of the last path
\* component, attribute 0x20, start cluster the first cluster of the new chain
\* and size the length of the data; and the clusters of the chain, read in
\* order, hold the data followed only by zero bytes up to the end of the last
\* cluster.
C19_CopyResult ==
    (last.op = "copy" /\ last.ok) =>
        LET dir == C_TargetDir(last.pre, last.pre.boot.sec.root44, last.path, 1)
            recs == C_RecordsBeforeEnd([k \in 1..(ClusterBytes \div DirEntrySize) |->
                                           DirSlot(Img, dir, k - 1)])
        IN /\ \E k \in 1..Len(recs) :
                 /\ recs[k].name = C_ElevenChars(last.path[Len(last.path)])
                 /\ recs[k].attr = 32
                 /\ UnpackH(recs[k].cllo) + 65536 * UnpackH(recs[k].clhi) = last.chain[1]
                 /\ UnpackI(recs[k].size) = last.src.len
           /\ \A i \in 1..Len(last.chain) :
                 C_CopiedCluster(last.chain[i]) = C_NewCluster(last.src, i)

\* the number of data clusters of the volume the last copy wrote to: the
\* sectors of the partition after the reserved sectors and the FAT copies
C_NumClusters ==
    LET b == last.pre.boot.sec
    IN (b.tot32 - b.rsv14 - b.nf16 * b.spf36) \div b.spc13

\* C22: every cluster of the chain a successful copy allocated is a data
\* cluster of the volume, 2 <= c < num_clusters + 2, and its bytes lie inside
\* the partition and inside the image as it was before the copy.
C22_AllocatedInVolume ==
    (last.op = "copy" /\ last.ok) =>
        \A i \in 1..Len(last.chain) :
            LET c == last.chain[i]
                cluster_end == last.data_offset + (c - 1) * last.cluster_bytes
            IN /\ 2 <= c /\ c < C_NumClusters + 2
               /\ cluster_end <= (last.pre.boot.lba + last.pre.boot.sec.tot32) * SectorSize
               /\ cluster_end <= last.pre.area.base + RunsLen(last.pre.area.runs)

-----------------------------------------------------------------------------
(* Properties of the layout computation (SpecLayout)                       *)

\* C21: for every partition size, the FAT of sectors_per_fat sectors has at
\* least num_clusters + 2 entries, and reserved_sectors + num_fats *
\* sectors_per_fat + num_clusters * sectors_per_cluster is at most the number
\* of sectors of the partition.
C21_LayoutSound ==
    last.op = "layout" =>
        /\ (last.sectors_per_fat * 512) \div 4 >= last.num_clusters + 2
        /\ 32 + 2 * last.sectors_per_fat + last.num_clusters * 8
              <= last.partition_sectors

\* the layout of the 64 MB image of create-fat32-image.py: 127 FAT sectors
\* for 16092 clusters
C21_Witness ==
    /\ last.op = "layout"
    /\ last.partition_sectors = 129024
    /\ last.sectors_per_fat = 127
    /\ last.num_clusters = 16092

-----------------------------------------------------------------------------
(* Properties of an update after a copy on a built image (Spec)            *)

\* C25: when update runs on a built image for a path whose file a copy has
\* stored, the BPB it works with is that of the FAT32 volume at the start of
\* the partition, it finds the record of the file and it overwrites the first
\* cluster of the file's chain with the new data.
C25_UpdateSameVolume ==
    (kind \in {"mbr", "gpt", "simple"} /\ last.op = "update") =>
        LET vol == last.pre.boot.sec
            dir == C_TargetDir(last.pre, vol.root44, last.path, 1)
            recs == C_RecordsBeforeEnd([k \in 1..(ClusterBytes \div DirEntrySize) |->
                                           DirSlot(last.pre, dir, k - 1)])
            hits == {k \in 1..Len(recs) :
                        /\ recs[k].name = C_ElevenChars(last.path[Len(last.path)])
                        /\ recs[k].attr = AttrArchive}
            bpb == parse_fat32_bpb(last.pre)
            data_offset == (last.pre.boot.lba + vol.rsv14 + vol.nf16 * vol.spf36) * SectorSize
        IN (dir # 0 /\ hits # {}) =>
              /\ ~bpb.error
              /\ bpb.bytes_per_sector = vol.bps11
              /\ bpb.sectors_per_cluster = vol.spc13
              /\ bpb.sectors_per_fat = vol.spf36
              /\ bpb.root_cluster = vol.root44
              /\ last.ok
              /\ \E k \in hits :
                    C_DataCluster(Img, data_offset, UnpackH(recs[k].cllo))
                       = C_NewCluster(last.src, 1)

\* the cluster field of a directory record
C_ClusterOf(r) == UnpackH(r.cllo) + 65536 * UnpackH(r.clhi)

\* C26: in the volume every builder produces, the directories EFI (cluster
\* 3) and BOOT (cluster 4) start with a '.' record whose cluster field is the
\* directory's own cluster and a '..' record that refers to the parent (the
\* root, as cluster 2 or as the 0 that stands for the root, for EFI; cluster 3
\* for BOOT), and the directory tree is the same for the three builders.
C26_DotEntries ==
    (kind \in {"mbr", "gpt", "simple"} /\ last.op = "build") =>
        /\ \A d \in {3, 4} :
              /\ dirs[d][1].name = <<46, 32, 32, 32, 32, 32, 32, 32, 32, 32, 32>>
              /\ dirs[d][2].name = <<46, 46, 32, 32, 32, 32, 32, 32, 32, 32, 32>>
              /\ C_ClusterOf(dirs[d][1]) = d
        /\ C_ClusterOf(dirs[3][2]) \in {0, 2}
        /\ C_ClusterOf(dirs[4][2]) = 3
        /\ dirs = create_simple_esp_image.dirs

====
